---- MODULE Spec2Model ----
(***************************************************************************)
(* Execution-tracking protocol client of comfyui_workflow_exec.            *)
(*                                                                         *)
(* The repository holds two copies of ComfyUIWebSocketClient:              *)
(*   variant = "typed"  : comfyui_client/comfyui_websocket.py, built on    *)
(*                        ComfyUIClientBase (comfyui_client.py) and the    *)
(*                        pydantic models of config/comfy_schema.py; this  *)
(*                        is the class WorkflowRunner imports;             *)
(*   variant = "legacy" : comfyui_client/comfyui_webscoket.py, the         *)
(*                        self-contained dict-based copy.                  *)
(* One run of execute_workflow is modelled; the server (HTTP responses,    *)
(* stream frames) is the environment and is chosen with \E.                *)
(***************************************************************************)
EXTENDS Integers, Sequences, FiniteSets, TLC

\* ------------------------------------------------------------------ bounds
MaxQueueLen == 2      \* longest queue_running / queue_pending list polled
MaxClock == 4         \* admission wait is followed for this many sleeps
MaxRecv == 3          \* ws.recv calls followed in one run
MaxClose == 2         \* close() calls followed on one client object
MaxStream == 3        \* longest run of events the server multiplexes
MaxNodes == 2         \* nodes in a workflow template
MaxSeed == 1          \* seeds are drawn from 0..MaxSeed, standing for 0..2**32-1

\* ------------------------------------------------------- program constants
min_queue_num == 3    \* wait_for_queue_empty(min_queue_num=3)
check_interval == 1   \* execute_workflow(check_interval=1.0)

\* ------------------------------------------------------------ value sets
PromptId == "job"          \* prompt_id = str(uuid.uuid4()) of this run
OtherPromptId == "other"   \* a job of another client on the same stream
NoPromptId == "absent"     \* data carries no prompt_id (data.get -> None)
Null == "null"             \* JSON null / Python None

\* JsonMessageType: the ten structured kinds
JsonMessageType ==
    { "status", "execution_start", "execution_cached", "executing", "executed",
      "progress", "progress_state", "execution_error", "execution_interrupted",
      "execution_success" }

\* MessageHandlingPolicy.PRODUCTION
PRODUCTION ==
    { "execution_error", "execution_interrupted", "execution_success", "executing" }

\* MessageHandlingPolicy.DEVELOPMENT = list(JsonMessageType)
DEVELOPMENT == JsonMessageType

\* The production policy without execution_interrupted.
message_policy_without_interrupted(production) ==
    IF production THEN PRODUCTION \ { "execution_interrupted" } ELSE DEVELOPMENT

\* self.message_policy, set in __init__ from production_mode
message_policy(production) == IF production THEN PRODUCTION ELSE DEVELOPMENT

\* BinaryMessageType: 1, 2, 3
BinaryMessageType == { 1, 2, 3 }

PromptIds == { PromptId, OtherPromptId, NoPromptId }

\* Text frames holding a {type, data} JSON envelope.  data.node is only
\* varied for executing events, data.max only for progress events.
ExecutingFrames ==
    [ form : {"json"}, type : {"executing"}, pid : PromptIds,
      node : {Null, "3"}, max : {100}, tag : {0}, payload : {""} ]

ProgressFrames ==
    [ form : {"json"}, type : {"progress"}, pid : PromptIds,
      node : {"3"}, max : {0, 100}, tag : {0}, payload : {""} ]

OtherJsonFrames ==
    [ form : {"json"},
      type : (JsonMessageType \ {"executing", "progress"}) \cup {"unknown_kind"},
      pid : PromptIds, node : {"3"}, max : {100}, tag : {0}, payload : {""} ]

\* Text frames that are no {type, data} envelope: "badtext" is not JSON at
\* all, "nonobject" is JSON but not an object (a list, a number, null).
BadTextFrames ==
    [ form : {"badtext", "nonobject"}, type : {""}, pid : {NoPromptId},
      node : {Null}, max : {100}, tag : {0}, payload : {""} ]

\* What follows the 4-byte tag of a binary frame: "ok" is well formed,
\* "truncated" is shorter than its length prefix declares, "nonobject" is
\* metadata that is JSON but not an object.
Payloads(tag) ==
    CASE tag = 2 -> { "ok", "truncated", "nonobject" }
      [] tag = 3 -> { "ok", "truncated" }
      [] OTHER -> { "ok" }

\* Binary frames of at least 4 bytes, by their big-endian type tag, and the
\* frame shorter than 4 bytes (tag 0 with form "short").
BinaryFrames ==
    { f \in [ form : {"binary"}, type : {""}, pid : {NoPromptId},
              node : {Null}, max : {100}, tag : BinaryMessageType \cup {9},
              payload : { "ok", "truncated", "nonobject" } ] :
        f.payload \in Payloads(f.tag) }
    \cup
    [ form : {"short"}, type : {""}, pid : {NoPromptId},
      node : {Null}, max : {100}, tag : {0}, payload : {""} ]

Frames ==
    ExecutingFrames \cup ProgressFrames \cup OtherJsonFrames
        \cup BadTextFrames \cup BinaryFrames

NoFrame ==
    [ form |-> "none", type |-> "", pid |-> NoPromptId,
      node |-> Null, max |-> 100, tag |-> 0, payload |-> "" ]

\* ------------------------------------------------------------------ state
VARIABLES
    variant,          \* which copy of the client runs
    production_mode,  \* self.production_mode
    wait_for_queue,   \* execute_workflow(wait_for_queue=...)
    max_wait,         \* execute_workflow(max_wait=...), 0 stands for None
    pc,               \* position of the caller / of execute_workflow
    ws,               \* self.ws: "none", "connected" or "closed"
    elapsed,          \* time.time() - start_time in wait_for_queue_empty
    lastPoll,         \* outcome of the last GET /queue
    sawIdle,          \* some GET /queue answered with total < min_queue_num
    waitExpired,      \* some busy snapshot was polled after max_wait elapsed
    submits,          \* POST /prompt requests made
    ticket,           \* the submission ticket received
    recvs,            \* ws.recv calls made
    lastRecv,         \* outcome of the last ws.recv
    lastFrame,        \* the frame the last ws.recv returned
    lastHandler,      \* handler that ran on lastFrame ("none": dropped)
    loopConnects,     \* connect() calls made by the receive loop
    closes,           \* WebSocketConnectionClosedException seen by the loop
    reconnectFailed,  \* a connect() made by the loop raised
    terminal,         \* the loop was ended by a terminal signal
    failureReason,    \* message of the failure a handler raised
    historyFetches,   \* GET /history/{prompt_id} requests made
    history,          \* the history response received
    output_images,    \* output_images: node id -> list of image bytes
    imageCalls,       \* get_image calls made, in order, with their result
    outcome,          \* how execute_workflow ended
    scoped,           \* the client is used in a with-block
    session,          \* self.session, the requests.Session: "open" / "closed"
    closeCalls,       \* close() calls made
    closeFailed,      \* self.ws.close() raised in some close()
    twin,             \* the same run under the other policy (SpecPolicy)
    abortRequested,   \* the caller has asked for the run to be abandoned
    stream,           \* frames the server has still to deliver (SpecShared)
    runner,           \* WorkflowRunner.run / execute_workflow_task (SpecTask)
    workflow          \* WorkflowManager.get_workflow (SpecWorkflow)

vars ==
    << variant, production_mode, wait_for_queue, max_wait, pc, ws, elapsed,
       lastPoll, sawIdle, waitExpired, submits, ticket, recvs, lastRecv,
       lastFrame, lastHandler, loopConnects, closes, reconnectFailed,
       terminal, failureReason, historyFetches, history, output_images,
       imageCalls, outcome, scoped, session, closeCalls, closeFailed, twin,
       abortRequested, stream, runner, workflow >>

sessionVars == << scoped, session, closeCalls, closeFailed >>

callerVars == << abortRequested, stream, runner, workflow >>

\* The variables of one execute_workflow call.
runVars ==
    << pc, ws, elapsed, lastPoll, sawIdle, waitExpired, submits, ticket,
       recvs, lastRecv, lastFrame, lastHandler, loopConnects, closes,
       reconnectFailed, terminal, failureReason, historyFetches, history,
       output_images, imageCalls, outcome >>

config == << variant, production_mode, wait_for_queue, max_wait >>

waitVars == << elapsed, lastPoll, sawIdle, waitExpired >>

loopVars ==
    << recvs, lastRecv, lastFrame, lastHandler, loopConnects, closes,
       reconnectFailed, terminal, failureReason >>

histVars == << historyFetches, history, output_images, imageCalls >>

NoPoll == [ ok |-> FALSE, total |-> 0 ]

\* No second run is followed.
NoTwin == [ pc |-> "none", outcome |-> "none", handler |-> "none" ]

\* Nodes with outputs in a history record and the images they reference;
\* the bytes GET /view returns for an image are named by its filename.
OutNodes == { "8", "9" }

\* The order in which history["outputs"].items() yields the nodes.
NodeOrder == << "8", "9" >>

Refs == { "a", "b" }

\* One node's entry of history[prompt_id]["outputs"]: with or without an
\* "images" key.
NodeOutputs ==
    { [ has |-> FALSE, images |-> << >> ] }
        \cup { [ has |-> TRUE, images |-> l ] :
                  l \in { << >>, <<"a">>, <<"b">>, <<"a", "b">> } }

\* The history records drawn: node "9" has any of the entries above, node
\* "8" has no "images" key or the single image "b".
HistoryOutputs ==
    { o \in [ OutNodes -> NodeOutputs ] :
        o["8"] \in { [ has |-> FALSE, images |-> << >> ],
                     [ has |-> TRUE, images |-> <<"b">> ] } }

NoHistory ==
    [ status |-> "none", present |-> FALSE,
      outputs |-> [ n \in OutNodes |-> [ has |-> FALSE, images |-> << >> ] ] ]

EmptyOutputs == [ n \in {} |-> << >> ]

\* run's locals output_images = None and prompt_id = None.
NoOutput == [ set |-> FALSE, images |-> EmptyOutputs ]

\* A value handed back: None, an output mapping or a prompt id.
NoneValue == [ kind |-> "None", images |-> EmptyOutputs, id |-> "" ]

\* A WorkflowRunner as __init__ leaves it, for the client given and the
\* callbacks bound; at is the pipeline's position.
NewRunner(at, client, pre, modify, post) ==
    [ pc |-> at, client |-> client, pre |-> pre, modify |-> modify,
      post |-> post, steps |-> << >>, executed |-> "no",
      output |-> NoOutput, prompt_id |-> "", failed |-> FALSE,
      raised |-> "none", runResult |-> NoneValue, result |-> NoneValue ]

\* No pipeline is followed.
NoRunner == NewRunner("none", "websocket", FALSE, FALSE, FALSE)

\* No workflow is built.
NoWorkflow == [ pc |-> "none" ]

\* The caller-side variables of a state in which only the client runs.
NoCaller ==
    /\ abortRequested = FALSE
    /\ stream = << >>
    /\ runner = NoRunner
    /\ workflow = NoWorkflow

\* State after __init__: no stream, nothing polled, submitted or received.
Init ==
    /\ variant \in { "typed", "legacy" }
    /\ production_mode \in BOOLEAN
    /\ wait_for_queue \in BOOLEAN
    /\ max_wait \in { 0, 2 }
    /\ pc = "new"
    /\ ws = "none"
    /\ elapsed = 0
    /\ lastPoll = NoPoll
    /\ sawIdle = FALSE
    /\ waitExpired = FALSE
    /\ submits = 0
    /\ ticket = "none"
    /\ recvs = 0
    /\ lastRecv = "none"
    /\ lastFrame = NoFrame
    /\ lastHandler = "none"
    /\ loopConnects = 0
    /\ closes = 0
    /\ reconnectFailed = FALSE
    /\ terminal = FALSE
    /\ failureReason = ""
    /\ historyFetches = 0
    /\ history = NoHistory
    /\ output_images = EmptyOutputs
    /\ imageCalls = << >>
    /\ outcome = "none"
    /\ scoped = FALSE
    /\ session = "open"
    /\ closeCalls = 0
    /\ closeFailed = FALSE
    /\ twin = NoTwin
    /\ NoCaller

\* ------------------------------------------------------------ connection
\* connect() raises WorkflowConnectionError in the typed client; the legacy
\* client lets the websocket library's exception through.
ConnectError(v) ==
    IF v = "typed" THEN "WorkflowConnectionError" ELSE "WebSocketException"

\* with ComfyUIWebSocketClient(...) as client: __enter__ calls connect();
\* when it raises, the block is not entered and execute_workflow never runs.
Enter ==
    /\ pc = "new"
    /\ scoped' = TRUE
    /\ \E ok \in BOOLEAN :
          IF ok
          THEN ws' = "connected" /\ pc' = "ready"
          ELSE ws' = "closed" /\ pc' = "enter_failed"
    /\ UNCHANGED << config, callerVars, session, closeCalls, closeFailed, twin, waitVars, submits, ticket, loopVars, histVars,
                    outcome >>

\* The client is used without the with-block (WorkflowRunner never calls
\* connect()): self.ws stays None.
NoEnter ==
    /\ pc = "new"
    /\ pc' = "ready"
    /\ UNCHANGED << config, callerVars, sessionVars, twin, ws, waitVars, submits, ticket, loopVars,
                    histVars, outcome >>

\* execute_workflow is called: if wait_for_queue: wait_for_queue_empty(...)
Begin ==
    /\ pc = "ready"
    /\ pc' = IF wait_for_queue THEN "wait" ELSE "submit"
    /\ UNCHANGED << config, callerVars, sessionVars, twin, ws, waitVars, submits, ticket, loopVars,
                    histVars, outcome >>

\* ------------------------------------------------------- admission wait
\* get_queue_info(): the typed client returns APIQueueInfo, a pydantic
\* BaseModel that defines no get(); queue_status.get("queue_running") then
\* raises AttributeError.  The legacy client returns the parsed dict.
SnapshotReadable(v) == v = "legacy"

\* The idle test with the floor itself admitted.
QueueIdleAtFloor(total) == total <= min_queue_num

\* if total_count < min_queue_num: break
QueueIdle(total) == total < min_queue_num

\* if max_wait and (time.time() - start_time) > max_wait: raise TimeoutError
WaitTimedOut(maxw, el) == maxw # 0 /\ el > maxw

\* The handler re-raising what it caught.
WaitExceptRaises(exc) == exc

\* except Exception as e: log, time.sleep(check_interval) -- the handler
\* encloses the whole loop body, the raise of TimeoutError included.
WaitExcept(exc) == "sleep"

\* One iteration of the while True of wait_for_queue_empty.
WaitStep(v, pollOk, total, maxw, el) ==
    IF ~pollOk THEN WaitExcept("ConnectionError")
    ELSE IF ~SnapshotReadable(v) THEN WaitExcept("AttributeError")
    ELSE IF QueueIdle(total) THEN "break"
    ELSE IF WaitTimedOut(maxw, el) THEN WaitExcept("TimeoutError")
    ELSE "sleep"

\* One pass of the loop of wait_for_queue_empty: poll GET /queue, decide,
\* sleep; dt is what the sleep adds to the clock.
PollQueue(dt) ==
    /\ pc = "wait"
    /\ \E pollOk \in BOOLEAN, running \in 0..MaxQueueLen, pending \in 0..MaxQueueLen :
          LET total == IF pollOk THEN running + pending ELSE 0
              step == WaitStep(variant, pollOk, total, max_wait, elapsed)
          IN  /\ lastPoll' = [ ok |-> pollOk, total |-> total ]
              /\ sawIdle' = (sawIdle \/ (pollOk /\ total < min_queue_num))
              /\ waitExpired' =
                    (waitExpired \/ (pollOk /\ total >= min_queue_num
                                     /\ max_wait # 0 /\ elapsed > max_wait))
              /\ IF step = "break"
                 THEN pc' = "submit" /\ elapsed' = elapsed /\ outcome' = outcome
                 ELSE IF step = "sleep"
                 THEN pc' = "wait" /\ elapsed' = elapsed + dt
                      /\ outcome' = outcome
                 ELSE pc' = "raised" /\ elapsed' = elapsed /\ outcome' = step
    /\ UNCHANGED << config, callerVars, sessionVars, twin, ws, submits, ticket, loopVars, histVars >>

\* wait_for_queue_empty while the clock is followed.
WaitPoll ==
    /\ elapsed < MaxClock
    /\ PollQueue(check_interval)

\* wait_for_queue_empty once the clock has passed every max_wait: the clock
\* is no longer advanced, the test elapsed > max_wait stays as it is.
WaitPollLate ==
    /\ elapsed = MaxClock
    /\ PollQueue(0)

\* ------------------------------------------------------------ submission
\* The ticket check with the node_errors test left out.
TicketRejectedErrorOnly(v, t) == v = "typed" /\ t = "error"

\* The typed execute_workflow raises RuntimeError when ticket.node_errors
\* or ticket.error is truthy; the legacy one discards queue_prompt's result.
TicketRejected(v, t) == v = "typed" /\ t \in { "node_errors", "error" }

\* payload = {"prompt": ...}: the typed queue_prompt calls
\* prompt.model_dump(by_alias=True), which an APIWorkflow has and the dict
\* execute_workflow declares (and WorkflowRunner passes) has not; the legacy
\* queue_prompt puts the dict into the payload as it is.
PayloadBuilt(v, prompt) == v = "legacy" \/ prompt = "APIWorkflow"

\* prompt_id = uuid4(); ticket = queue_prompt(prompt, prompt_id); checks.
\* The AttributeError of building the payload comes before the POST.
Submit ==
    /\ pc = "submit"
    /\ \E prompt \in { "dict", "APIWorkflow" } :
          IF ~PayloadBuilt(variant, prompt)
          THEN /\ submits' = submits
               /\ ticket' = ticket
               /\ pc' = "raised"
               /\ outcome' = "AttributeError"
          ELSE /\ submits' = submits + 1
               /\ \E t \in { "transport_error", "ok", "node_errors", "error" } :
                     IF t = "transport_error"
                     THEN /\ ticket' = ticket
                          /\ pc' = "raised"
                          /\ outcome' = "ConnectionError"
                     ELSE /\ ticket' = t
                          /\ IF TicketRejected(variant, t)
                             THEN pc' = "raised"
                                  /\ outcome' = "RuntimeError:validation"
                             ELSE pc' = "recv" /\ outcome' = outcome
    /\ UNCHANGED << config, callerVars, sessionVars, twin, ws, waitVars, loopVars, histVars >>

\* ------------------------------------------------------ event dispatch
\* What handling one frame did: the handler that ran ("none" when the frame
\* was dropped), the exception it let escape ("none" when it returned) and
\* the message of that exception when it reports a failed execution.
Handled(h) == [ handler |-> h, exc |-> "none", reason |-> "" ]

Raised(h, e, r) == [ handler |-> h, exc |-> e, reason |-> r ]

Dropped == Handled("none")

\* comfyui_webscoket.py _handle_progress: value / max_val * 100 in the log
\* line (max defaults to 100) -- ZeroDivisionError when max is 0.
handle_progress(f) ==
    IF f.max = 0
    THEN Raised("_handle_progress", "ZeroDivisionError", "")
    ELSE Handled("_handle_progress")

\* _handle_execution_error: log, raise RuntimeError(f"...: {error_msg}")
handle_execution_error(f) ==
    Raised("_handle_execution_error", "RuntimeError:execution_error",
           "execution_error")

\* _handle_execution_interrupted: log, raise RuntimeError("执行被中断")
handle_execution_interrupted(f) ==
    Raised("_handle_execution_interrupted", "RuntimeError:interrupted",
           "interrupted")

\* Handlers whose body is guarded by data.get("prompt_id") == prompt_id and
\* only logs: for another job's event nothing is done.
handle_filtered(name, f) ==
    IF f.pid = PromptId THEN Handled(name) ELSE Dropped

\* The dispatch with the enum lookup's ValueError let through.
handle_json_message_strict(production, f) ==
    IF f.type \notin JsonMessageType
    THEN Raised("_handle_json_message", "ValueError", "")
    ELSE IF f.type \notin message_policy(production) THEN Dropped
    ELSE CASE f.type = "status" -> Handled("_handle_status_message")
           [] f.type = "execution_start" -> Handled("_handle_execution_start")
           [] f.type = "execution_cached" ->
                 handle_filtered("_handle_execution_cached", f)
           [] f.type = "executing" -> handle_filtered("_handle_executing", f)
           [] f.type = "executed" -> handle_filtered("_handle_executed", f)
           [] f.type = "progress" -> handle_progress(f)
           [] f.type = "progress_state" -> Handled("_handle_progress_state")
           [] f.type = "execution_error" -> handle_execution_error(f)
           [] f.type = "execution_interrupted" -> handle_execution_interrupted(f)
           [] f.type = "execution_success" -> Handled("_handle_execution_success")

\* comfyui_webscoket.py _handle_json_message: enum lookup, policy filter,
\* handler table.
handle_json_message(production, f) ==
    IF f.type \notin JsonMessageType THEN Dropped
    ELSE IF f.type \notin message_policy(production) THEN Dropped
    ELSE CASE f.type = "status" -> Handled("_handle_status_message")
           [] f.type = "execution_start" -> Handled("_handle_execution_start")
           [] f.type = "execution_cached" ->
                 handle_filtered("_handle_execution_cached", f)
           [] f.type = "executing" -> handle_filtered("_handle_executing", f)
           [] f.type = "executed" -> handle_filtered("_handle_executed", f)
           [] f.type = "progress" -> handle_progress(f)
           [] f.type = "progress_state" -> Handled("_handle_progress_state")
           [] f.type = "execution_error" -> handle_execution_error(f)
           [] f.type = "execution_interrupted" -> handle_execution_interrupted(f)
           [] f.type = "execution_success" -> Handled("_handle_execution_success")

\* comfyui_websocket.py _handle_ws_message: only executing, execution_start
\* and execution_cached are looked at, each filtered on prompt_id.  The call
\* self._handle_execution_cached(data) omits the prompt_id parameter of
\* _handle_execution_cached(self, data, prompt_id): TypeError.
handle_ws_message(f) ==
    IF f.type = "executing"
    THEN IF f.pid = PromptId THEN Handled("_handle_executing") ELSE Dropped
    ELSE IF f.type \in { "execution_start", "execution_cached" }
    THEN IF f.pid = PromptId
         THEN IF f.type = "execution_start"
              THEN Handled("_handle_execution_start")
              ELSE Raised("_handle_execution_cached", "TypeError", "")
         ELSE Dropped
    ELSE Dropped

\* _handle_metadata_preview_image: a payload shorter than its prefix is
\* logged and left; metadata = json.loads(...) followed by metadata.get(...)
\* raises AttributeError when the metadata is not an object, and the
\* handler catches only UnicodeDecodeError and JSONDecodeError.
handle_metadata_preview_image(f) ==
    IF f.payload = "nonobject"
    THEN Raised("_handle_metadata_preview_image", "AttributeError", "")
    ELSE Handled("_handle_metadata_preview_image")

\* The binary dispatch without the except ValueError around the enum
\* lookup.
handle_binary_message_unguarded(production, f) ==
    IF f.form = "short" THEN Dropped
    ELSE IF f.tag \notin BinaryMessageType
    THEN Raised("_handle_binary_message", "ValueError", "")
    ELSE IF production THEN Dropped
    ELSE CASE f.tag = 1 -> Handled("_handle_preview_image")
           [] f.tag = 2 -> handle_metadata_preview_image(f)
           [] f.tag = 3 -> Handled("_handle_text_message")

\* _handle_binary_message: frames under 4 bytes and unknown tags are
\* dropped; production_mode returns before the handler table.
\* _handle_preview_image and _handle_text_message only log, also when the
\* payload is shorter than declared.
handle_binary_message(production, f) ==
    IF f.form = "short" THEN Dropped
    ELSE IF f.tag \notin BinaryMessageType THEN Dropped
    ELSE IF production THEN Dropped
    ELSE CASE f.tag = 1 -> Handled("_handle_preview_image")
           [] f.tag = 2 -> handle_metadata_preview_image(f)
           [] f.tag = 3 -> Handled("_handle_text_message")

\* _process_message: str frames are parsed and dispatched (a parse error is
\* logged and the frame dropped), everything else is a binary message.
\* JSON that is not an object fails WSMessage validation in the typed copy
\* (caught); in the legacy copy json.loads accepts it and message.get in
\* _handle_json_message raises AttributeError.
process_message(v, production, f) ==
    IF f.form = "json"
    THEN IF v = "typed" THEN handle_ws_message(f)
         ELSE handle_json_message(production, f)
    ELSE IF f.form = "badtext" THEN Dropped
    ELSE IF f.form = "nonobject"
    THEN IF v = "typed" THEN Dropped
         ELSE Raised("_handle_json_message", "AttributeError", "")
    ELSE handle_binary_message(production, f)

\* _is_execution_complete catches only json.JSONDecodeError: on JSON that
\* is not an object msg.get("type") raises AttributeError.
completion_raises(f) == f.form = "nonobject"

\* The completion test also satisfied by execution_success.
is_execution_complete_or_success(f) ==
    /\ f.form = "json"
    /\ f.pid = PromptId
    /\ \/ f.type = "executing" /\ f.node = Null
       \/ f.type = "execution_success"

\* The completion test with the node test left out.
is_execution_complete_any_node(f) ==
    /\ f.form = "json"
    /\ f.type = "executing"
    /\ f.pid = PromptId

\* _is_execution_complete: a str frame of type "executing" whose data has
\* the tracked prompt_id and node None.
is_execution_complete(f) ==
    /\ f.form = "json"
    /\ f.type = "executing"
    /\ f.pid = PromptId
    /\ f.node = Null

\* ---------------------------------------------------------- receive loop
\* A handler's exception caught by the loop's "except Exception: break".
HandlerRaisedBreaks == "history"

\* _process_message(out, prompt_id) is called after the try/except around
\* ws.recv: what a handler raises meets only the outer
\* "except Exception: raise" and leaves execute_workflow at once.
HandlerRaised == "raised"

\* The loop body after ws.recv returned f: _process_message, then
\* _is_execution_complete.  pc is where the run goes next, exc what was
\* raised ("none": nothing), ends whether the loop was left.
frame_result(v, production, f) ==
    LET r == process_message(v, production, f)
    IN  IF r.exc # "none"
        THEN [ handler |-> r.handler, pc |-> HandlerRaised, exc |-> r.exc,
               reason |-> r.reason, ends |-> TRUE ]
        ELSE IF completion_raises(f)
        THEN [ handler |-> r.handler, pc |-> "raised", exc |-> "AttributeError",
               reason |-> "", ends |-> TRUE ]
        ELSE IF is_execution_complete(f)
        THEN [ handler |-> r.handler, pc |-> "history", exc |-> "none",
               reason |-> "", ends |-> TRUE ]
        ELSE [ handler |-> r.handler, pc |-> "recv", exc |-> "none",
               reason |-> "", ends |-> FALSE ]

\* out = self.ws.recv(...) returned a frame: _process_message, then
\* _is_execution_complete.  An exception escaping either leaves the loop
\* through the outer "except Exception: raise".
ReceiveFrame(n) ==
    /\ pc = "recv"
    /\ ws = "connected"
    /\ recvs' = n
    /\ lastRecv' = "frame"
    /\ \E f \in Frames :
          LET r == frame_result(variant, production_mode, f)
          IN  /\ lastFrame' = f
              /\ lastHandler' = r.handler
              /\ pc' = r.pc
              /\ terminal' = (terminal \/ r.ends)
              /\ outcome' = IF r.exc # "none" THEN r.exc ELSE outcome
              /\ failureReason' =
                    IF r.exc # "none" THEN r.reason ELSE failureReason
    /\ UNCHANGED << config, callerVars, sessionVars, twin, ws, waitVars, submits, ticket, loopConnects,
                    closes, reconnectFailed, histVars >>

\* A frame received while the receives are counted.
RecvFrame ==
    /\ recvs < MaxRecv
    /\ ReceiveFrame(recvs + 1)

\* A frame received after MaxRecv receives: the count stays.
RecvFrameLate ==
    /\ recvs = MaxRecv
    /\ ReceiveFrame(recvs)

\* The timeout handled like any other receive failure: break.
OnRecvTimeoutBreak == "history"

\* except websocket.WebSocketTimeoutException: continue
OnRecvTimeout == "recv"

\* ws.recv timed out; n is the count of receives after it.
ReceiveTimeout(n) ==
    /\ pc = "recv"
    /\ ws = "connected"
    /\ recvs' = n
    /\ lastRecv' = "timeout"
    /\ pc' = OnRecvTimeout
    /\ UNCHANGED << config, callerVars, sessionVars, twin, ws, waitVars, submits, ticket, lastFrame,
                    lastHandler, loopConnects, closes, reconnectFailed,
                    terminal, failureReason, histVars, outcome >>

\* A timeout while the receives are counted.
RecvTimeout ==
    /\ recvs < MaxRecv
    /\ ReceiveTimeout(recvs + 1)

\* A timeout after MaxRecv receives: the count stays.
RecvTimeoutLate ==
    /\ recvs = MaxRecv
    /\ ReceiveTimeout(recvs)

\* The reconnect failure swallowed by "except Exception: break".
ReconnectFailureBreaks(v) == [ pc |-> "history", outcome |-> "none" ]

\* A connect() that raises inside the handler of
\* WebSocketConnectionClosedException is not caught by the sibling
\* "except Exception: break"; it leaves through "except Exception: raise".
ReconnectFailure(v) == [ pc |-> "raised", outcome |-> ConnectError(v) ]

\* except websocket.WebSocketConnectionClosedException: self.connect();
\* continue.  The library marks the socket unconnected when it raises, so
\* connect() opens a new one.
RecvClosed ==
    /\ pc = "recv"
    /\ ws = "connected"
    /\ recvs < MaxRecv
    /\ recvs' = recvs + 1
    /\ lastRecv' = "closed"
    /\ closes' = closes + 1
    /\ loopConnects' = loopConnects + 1
    /\ \E ok \in BOOLEAN :
          IF ok
          THEN /\ ws' = "connected"
               /\ pc' = "recv"
               /\ outcome' = outcome
               /\ reconnectFailed' = reconnectFailed
          ELSE /\ ws' = "closed"
               /\ pc' = ReconnectFailure(variant).pc
               /\ outcome' =
                     IF ReconnectFailure(variant).pc = "raised"
                     THEN ReconnectFailure(variant).outcome ELSE outcome
               /\ reconnectFailed' = TRUE
    /\ UNCHANGED << config, callerVars, sessionVars, twin, waitVars, submits, ticket, lastFrame, lastHandler,
                    terminal, failureReason, histVars >>

\* except Exception: log; break.  Any other failure of recv, among them the
\* AttributeError of self.ws.recv when self.ws is None (connect() was never
\* called), leaves the loop towards the history fetch.
RecvError ==
    /\ pc = "recv"
    /\ ws \in { "none", "connected" }
    /\ recvs < MaxRecv
    /\ recvs' = recvs + 1
    /\ lastRecv' = "error"
    /\ pc' = "history"
    /\ UNCHANGED << config, callerVars, sessionVars, twin, ws, waitVars, submits, ticket, lastFrame,
                    lastHandler, loopConnects, closes, reconnectFailed,
                    terminal, failureReason, histVars, outcome >>

\* --------------------------------------------------------------- history
\* The membership test left out.
HistoryContainsAlways(v, present) == TRUE

\* if prompt_id not in history.  The typed get_history returns APIHistory, a
\* pydantic RootModel: it defines no __contains__, so "in" iterates the
\* model's (field name, value) pairs and a prompt_id string is never among
\* them.  The legacy get_history returns the parsed dict.
HistoryContains(v, present) == v = "legacy" /\ present

\* entry = history[prompt_id]; entry.get("outputs", {}): the typed history
\* is a pydantic RootModel, which defines no __getitem__, and its entries
\* are BaseModels, which define no get().  The legacy history is a dict of
\* dicts.
EntryReadable(v) == v = "legacy"

\* Reconciliation that keeps the entry a node already has.
process_history_outputs_preserving(outputs, failed, out) ==
    LET fetched(n) ==
            SelectSeq(outputs[n].images, LAMBDA r : << n, r >> \notin failed)
        written == { n \in DOMAIN outputs :
                       /\ n \notin DOMAIN out
                       /\ outputs[n].has
                       /\ fetched(n) # << >> }
    IN  [ n \in (DOMAIN out) \cup written |->
            IF n \in written THEN fetched(n) ELSE out[n] ]

\* Reconciliation that gives up a node's images when one fetch fails.
process_history_outputs_all_or_nothing(outputs, failed, out) ==
    LET complete(n) ==
            \A k \in 1..Len(outputs[n].images) :
                << n, outputs[n].images[k] >> \notin failed
        written == { n \in DOMAIN outputs :
                       /\ outputs[n].has
                       /\ outputs[n].images # << >>
                       /\ complete(n) }
    IN  [ n \in (DOMAIN out) \cup written |->
            IF n \in written THEN outputs[n].images ELSE out[n] ]

\* _process_history_outputs: for each node whose output has "images",
\* get_image is called for every image in order; a failed fetch is logged
\* and skipped; a non-empty result is stored under the node id.
process_history_outputs(outputs, failed, out) ==
    LET fetched(n) ==
            SelectSeq(outputs[n].images, LAMBDA r : << n, r >> \notin failed)
        written == { n \in DOMAIN outputs : outputs[n].has /\ fetched(n) # << >> }
    IN  [ n \in (DOMAIN out) \cup written |->
            IF n \in written THEN fetched(n) ELSE out[n] ]

\* The get_image calls _process_history_outputs makes: every image of
\* every node that has "images", node by node, in the listed order.
RECURSIVE image_calls_from(_, _, _)
image_calls_from(i, outputs, failed) ==
    IF i > Len(NodeOrder) THEN << >>
    ELSE LET n == NodeOrder[i]
             imgs == IF outputs[n].has THEN outputs[n].images ELSE << >>
         IN  [ k \in 1..Len(imgs) |->
                 [ node |-> n, ref |-> imgs[k],
                   ok |-> << n, imgs[k] >> \notin failed ] ]
             \o image_calls_from(i + 1, outputs, failed)

image_calls(outputs, failed) == image_calls_from(1, outputs, failed)

\* The (node, image) pairs a history record references.
Referenced(outputs) ==
    { p \in OutNodes \X Refs :
        /\ outputs[p[1]].has
        /\ \E k \in 1..Len(outputs[p[1]].images) : outputs[p[1]].images[k] = p[2] }

\* The missing record answered by fetching the history again.
HistoryMissingRetries == [ pc |-> "history", outcome |-> "none" ]

\* raise ValueError(f"Prompt ID {prompt_id} ...") -- re-raised by the outer
\* "except Exception: raise".
HistoryMissing == [ pc |-> "raised", outcome |-> "ValueError" ]

\* get_history(prompt_id), the membership test, _process_history_outputs,
\* return output_images.
FetchHistory ==
    /\ pc = "history"
    /\ historyFetches' = historyFetches + 1
    /\ \E resp \in { "transport_error", "present", "absent" } :
          IF resp = "transport_error"
          THEN /\ history' = [ NoHistory EXCEPT !.status = resp ]
               /\ pc' = "raised" /\ outcome' = "ConnectionError"
               /\ UNCHANGED << output_images, imageCalls >>
          ELSE \E outputs \in IF resp = "present" THEN HistoryOutputs
                                                 ELSE { NoHistory.outputs } :
                  /\ history' = [ status |-> resp, present |-> (resp = "present"),
                                  outputs |-> outputs ]
                  /\ IF HistoryContains(variant, resp = "present")
                     THEN IF EntryReadable(variant)
                          THEN \E failed \in SUBSET Referenced(outputs) :
                                  /\ output_images' =
                                        process_history_outputs(outputs, failed,
                                                                output_images)
                                  /\ imageCalls' = image_calls(outputs, failed)
                                  /\ pc' = "returned" /\ outcome' = "returned"
                          ELSE /\ pc' = "raised" /\ outcome' = "TypeError"
                               /\ UNCHANGED << output_images, imageCalls >>
                     ELSE /\ pc' = HistoryMissing.pc
                          /\ outcome' = HistoryMissing.outcome
                          /\ UNCHANGED << output_images, imageCalls >>
    /\ UNCHANGED << config, callerVars, sessionVars, twin, ws, waitVars, submits, ticket, loopVars >>

\* ------------------------------------------------------------------ spec
Next ==
    \/ Enter
    \/ NoEnter
    \/ Begin
    \/ WaitPoll
    \/ Submit
    \/ RecvFrame
    \/ RecvTimeout
    \/ RecvClosed
    \/ RecvError
    \/ FetchHistory

Spec == Init /\ [][Next]_vars

\* The run followed past the horizon of the counters: the admission wait
\* goes on polling and the receive loop goes on receiving frames and
\* timeouts.
LiveNext ==
    \/ Next
    \/ WaitPollLate
    \/ RecvFrameLate
    \/ RecvTimeoutLate

\* The thread that runs execute_workflow keeps running: whenever it has a
\* next step it takes one.
LiveSpec == Init /\ [][LiveNext]_vars /\ WF_vars(LiveNext)

\* ------------------------------------------------ reconciliation alone
\* Bytes the accumulator can hold before reconciliation: "s" was not
\* fetched from the history, "a" equals the image "a".
AccumulatorLists == { << "s" >>, << "a" >> }

Accumulators ==
    UNION { [ d -> AccumulatorLists ] : d \in SUBSET OutNodes }

\* _process_history_outputs is about to be called with a history entry and
\* an accumulator.
ReconcileInit ==
    /\ variant \in { "typed", "legacy" }
    /\ production_mode \in BOOLEAN
    /\ wait_for_queue = FALSE
    /\ max_wait = 0
    /\ pc = "reconcile_call"
    /\ ws = "connected"
    /\ elapsed = 0
    /\ lastPoll = NoPoll
    /\ sawIdle = FALSE
    /\ waitExpired = FALSE
    /\ submits = 1
    /\ ticket = "ok"
    /\ recvs = 0
    /\ lastRecv = "none"
    /\ lastFrame = NoFrame
    /\ lastHandler = "none"
    /\ loopConnects = 0
    /\ closes = 0
    /\ reconnectFailed = FALSE
    /\ terminal = FALSE
    /\ failureReason = ""
    /\ historyFetches = 1
    /\ \E outputs \in HistoryOutputs :
          history = [ status |-> "present", present |-> TRUE,
                      outputs |-> outputs ]
    /\ output_images \in Accumulators
    /\ imageCalls = << >>
    /\ outcome = "none"
    /\ scoped = FALSE
    /\ session = "open"
    /\ closeCalls = 0
    /\ closeFailed = FALSE
    /\ twin = NoTwin
    /\ NoCaller

\* _process_history_outputs(entry, output_images) called on its own.
ReconcileCall ==
    /\ pc = "reconcile_call"
    /\ IF EntryReadable(variant)
       THEN \E failed \in SUBSET Referenced(history.outputs) :
               /\ output_images' =
                     process_history_outputs(history.outputs, failed,
                                             output_images)
               /\ imageCalls' = image_calls(history.outputs, failed)
               /\ pc' = "reconciled" /\ outcome' = outcome
       ELSE /\ pc' = "raised" /\ outcome' = "AttributeError"
            /\ UNCHANGED << output_images, imageCalls >>
    /\ UNCHANGED << config, callerVars, sessionVars, twin, ws, waitVars, submits, ticket, loopVars,
                    historyFetches, history >>

ReconcileNext == ReconcileCall

SpecReconcile == ReconcileInit /\ [][ReconcileNext]_vars

\* ------------------------------------------------------ close, __exit__
\* The typed close() without its super().close().
SessionAfterCloseNoSuper(v) == IF v = "typed" THEN "open" ELSE "closed"

\* The typed close() ends with super().close(), which is
\* self.session.close(); the legacy close() calls self.session.close().
SessionAfterClose(v) == "closed"

\* The failure of self.ws.close() let through by close().
ws_close_failure_propagates(v, w) ==
    [ ws |-> w, session |-> "open", raised |-> TRUE ]

\* close(): try: self.ws.close() except Exception: log -- then
\* self.ws = None and the HTTP session is closed all the same.
ws_close_failure(v, w) ==
    [ ws |-> "none", session |-> SessionAfterClose(v), raised |-> FALSE ]

\* close(): what it leaves of self.ws and self.session, and whether it
\* raised; fails says that self.ws.close() raised.
close(v, w, fails) ==
    IF w # "none" /\ fails
    THEN ws_close_failure(v, w)
    ELSE [ ws |-> "none", session |-> SessionAfterClose(v), raised |-> FALSE ]

\* One call of close(): done is the position after a call that returned,
\* failed the position after one that raised.
CloseCall(done, failed) ==
    /\ closeCalls' = closeCalls + 1
    /\ \E fails \in IF ws = "none" THEN { FALSE } ELSE BOOLEAN :
          LET r == close(variant, ws, fails)
          IN  /\ ws' = r.ws
              /\ session' = r.session
              /\ closeFailed' = (closeFailed \/ fails)
              /\ pc' = IF r.raised THEN failed ELSE done

\* __exit__(exc_type, exc_val, exc_tb): self.close() -- the with-block is
\* left, by return or by exception.
Exit ==
    /\ scoped
    /\ pc \in { "returned", "raised" }
    /\ CloseCall("exited", "exit_raised")
    /\ UNCHANGED << config, callerVars, scoped, twin, waitVars, submits, ticket, loopVars,
                    histVars, outcome >>

\* The run inside or outside a with-block, and the end of the block.
SessionNext ==
    \/ Next
    \/ Exit

SessionSpec == Init /\ [][SessionNext]_vars

\* A client object as close() can find it: self.ws None, a connected
\* socket, or a socket that is not connected; the session open.
CloseInit ==
    /\ variant \in { "typed", "legacy" }
    /\ production_mode \in BOOLEAN
    /\ wait_for_queue \in BOOLEAN
    /\ max_wait \in { 0, 2 }
    /\ pc = "object"
    /\ ws \in { "none", "connected", "closed" }
    /\ elapsed = 0
    /\ lastPoll = NoPoll
    /\ sawIdle = FALSE
    /\ waitExpired = FALSE
    /\ submits = 0
    /\ ticket = "none"
    /\ recvs = 0
    /\ lastRecv = "none"
    /\ lastFrame = NoFrame
    /\ lastHandler = "none"
    /\ loopConnects = 0
    /\ closes = 0
    /\ reconnectFailed = FALSE
    /\ terminal = FALSE
    /\ failureReason = ""
    /\ historyFetches = 0
    /\ history = NoHistory
    /\ output_images = EmptyOutputs
    /\ imageCalls = << >>
    /\ outcome = "none"
    /\ scoped = FALSE
    /\ session = "open"
    /\ closeCalls = 0
    /\ closeFailed = FALSE
    /\ twin = NoTwin
    /\ NoCaller

\* close() called on the object, again and again.
Close ==
    /\ pc = "object"
    /\ closeCalls < MaxClose
    /\ CloseCall("object", "close_raised")
    /\ UNCHANGED << config, callerVars, scoped, twin, waitVars, submits, ticket, loopVars,
                    histVars, outcome >>

CloseNext == Close

SpecClose == CloseInit /\ [][CloseNext]_vars

\* ------------------------------------------- one stream, both policies
\* Two clients of the same copy, one with production_mode=True and one
\* with production_mode=False, have submitted and read the same stream.
PolicyInit ==
    /\ variant \in { "typed", "legacy" }
    /\ production_mode = TRUE
    /\ wait_for_queue = FALSE
    /\ max_wait = 0
    /\ pc = "recv"
    /\ ws = "connected"
    /\ elapsed = 0
    /\ lastPoll = NoPoll
    /\ sawIdle = FALSE
    /\ waitExpired = FALSE
    /\ submits = 1
    /\ ticket = "ok"
    /\ recvs = 0
    /\ lastRecv = "none"
    /\ lastFrame = NoFrame
    /\ lastHandler = "none"
    /\ loopConnects = 0
    /\ closes = 0
    /\ reconnectFailed = FALSE
    /\ terminal = FALSE
    /\ failureReason = ""
    /\ historyFetches = 0
    /\ history = NoHistory
    /\ output_images = EmptyOutputs
    /\ imageCalls = << >>
    /\ outcome = "none"
    /\ scoped = TRUE
    /\ session = "open"
    /\ closeCalls = 0
    /\ closeFailed = FALSE
    /\ twin = [ pc |-> "recv", outcome |-> "none", handler |-> "none" ]
    /\ NoCaller

\* The same frame is received by both clients; each runs the loop body on
\* it under its own production_mode, unless it has left the loop already.
TwinRecvFrame ==
    /\ pc = "recv" \/ twin.pc = "recv"
    /\ recvs < MaxRecv
    /\ recvs' = recvs + 1
    /\ lastRecv' = "frame"
    /\ \E f \in Frames :
          LET a == frame_result(variant, production_mode, f)
              b == frame_result(variant, ~production_mode, f)
          IN  /\ lastFrame' = f
              /\ IF pc = "recv"
                 THEN /\ pc' = a.pc
                      /\ lastHandler' = a.handler
                      /\ terminal' = (terminal \/ a.ends)
                      /\ outcome' = IF a.exc # "none" THEN a.exc ELSE outcome
                      /\ failureReason' =
                            IF a.exc # "none" THEN a.reason ELSE failureReason
                 ELSE UNCHANGED << pc, lastHandler, terminal, outcome,
                                   failureReason >>
              /\ twin' =
                    IF twin.pc = "recv"
                    THEN [ pc |-> b.pc,
                           outcome |-> IF b.exc # "none" THEN b.exc
                                       ELSE twin.outcome,
                           handler |-> b.handler ]
                    ELSE twin
    /\ UNCHANGED << config, callerVars, sessionVars, ws, waitVars, submits, ticket,
                    loopConnects, closes, reconnectFailed, histVars >>

PolicyNext == TwinRecvFrame

SpecPolicy == PolicyInit /\ [][PolicyNext]_vars

\* ------------------------------------------------- the caller gives up
\* A run that has submitted its job and waits in the receive loop, with the
\* stream connected.
AbortInit ==
    /\ variant \in { "typed", "legacy" }
    /\ production_mode \in BOOLEAN
    /\ wait_for_queue = FALSE
    /\ max_wait = 0
    /\ pc = "recv"
    /\ ws = "connected"
    /\ elapsed = 0
    /\ lastPoll = NoPoll
    /\ sawIdle = FALSE
    /\ waitExpired = FALSE
    /\ submits = 1
    /\ ticket = "ok"
    /\ recvs = 0
    /\ lastRecv = "none"
    /\ lastFrame = NoFrame
    /\ lastHandler = "none"
    /\ loopConnects = 0
    /\ closes = 0
    /\ reconnectFailed = FALSE
    /\ terminal = FALSE
    /\ failureReason = ""
    /\ historyFetches = 0
    /\ history = NoHistory
    /\ output_images = EmptyOutputs
    /\ imageCalls = << >>
    /\ outcome = "none"
    /\ scoped \in BOOLEAN
    /\ session = "open"
    /\ closeCalls = 0
    /\ closeFailed = FALSE
    /\ twin = NoTwin
    /\ NoCaller

\* The caller decides to abandon the run while execute_workflow is inside
\* "while True".  The loop body reads self.ws.recv, _process_message and
\* _is_execution_complete and nothing else: no statement of it, and no
\* parameter or attribute of the client, carries the caller's decision, so
\* the decision changes nothing the loop looks at.
CallerAbort ==
    /\ pc = "recv"
    /\ ~abortRequested
    /\ abortRequested' = TRUE
    /\ UNCHANGED << config, stream, runner, workflow, sessionVars, twin, pc,
                    ws, waitVars, submits, ticket, loopVars, histVars,
                    outcome >>

\* The receive loop of one run, the caller's decision, the end of the
\* with-block.
AbortNext ==
    \/ CallerAbort
    \/ RecvFrame
    \/ RecvTimeout
    \/ RecvClosed
    \/ RecvError
    \/ Exit

SpecAbort == AbortInit /\ [][AbortNext]_vars

\* ------------------------------------------- two runs, one stream
\* Two execute_workflow calls on one client object, each with its own
\* prompt_id, both in "while True" at out = self.ws.recv(...) on the one
\* self.ws.  The run followed by pc tracks PromptId, the run followed by
\* twin tracks OtherPromptId.

\* The events the server emits for the two jobs.
JobFrames == { f \in ExecutingFrames : f.pid \in { PromptId, OtherPromptId } }

\* The server emits, for each job, its executing events and then its
\* executing(node=null), once; the two jobs' events are multiplexed in any
\* order on the client's one connection.
Multiplexed(s) ==
    \A p \in { PromptId, OtherPromptId } :
        \E i \in 1..Len(s) :
            /\ s[i].pid = p
            /\ s[i].node = Null
            /\ \A j \in 1..Len(s) :
                  (s[j].pid = p /\ j # i) => (j < i /\ s[j].node # Null)

SharedStreams ==
    { s \in UNION { [ 1..n -> JobFrames ] : n \in 2..MaxStream } :
        Multiplexed(s) }

\* A frame as the second run reads it: its own prompt_id is OtherPromptId.
SwapJob(f) ==
    [ f EXCEPT !.pid = IF @ = PromptId THEN OtherPromptId
                       ELSE IF @ = OtherPromptId THEN PromptId ELSE @ ]

SharedInit ==
    /\ variant \in { "typed", "legacy" }
    /\ production_mode \in BOOLEAN
    /\ wait_for_queue = FALSE
    /\ max_wait = 0
    /\ pc = "recv"
    /\ ws = "connected"
    /\ elapsed = 0
    /\ lastPoll = NoPoll
    /\ sawIdle = FALSE
    /\ waitExpired = FALSE
    /\ submits = 1
    /\ ticket = "ok"
    /\ recvs = 0
    /\ lastRecv = "none"
    /\ lastFrame = NoFrame
    /\ lastHandler = "none"
    /\ loopConnects = 0
    /\ closes = 0
    /\ reconnectFailed = FALSE
    /\ terminal = FALSE
    /\ failureReason = ""
    /\ historyFetches = 0
    /\ history = NoHistory
    /\ output_images = EmptyOutputs
    /\ imageCalls = << >>
    /\ outcome = "none"
    /\ scoped = TRUE
    /\ session = "open"
    /\ closeCalls = 0
    /\ closeFailed = FALSE
    /\ twin = [ pc |-> "recv", outcome |-> "none", handler |-> "none" ]
    /\ abortRequested = FALSE
    /\ stream \in SharedStreams
    /\ runner = NoRunner
    /\ workflow = NoWorkflow

\* out = self.ws.recv(...) in the first run: the socket hands the next frame
\* to the call that reads it and to no other; the loop body then runs on it.
SharedRecv ==
    /\ pc = "recv"
    /\ stream # << >>
    /\ stream' = Tail(stream)
    /\ recvs' = recvs + 1
    /\ lastRecv' = "frame"
    /\ LET f == Head(stream)
           r == frame_result(variant, production_mode, f)
       IN  /\ lastFrame' = f
           /\ lastHandler' = r.handler
           /\ pc' = r.pc
           /\ terminal' = (terminal \/ r.ends)
           /\ outcome' = IF r.exc # "none" THEN r.exc ELSE outcome
           /\ failureReason' =
                 IF r.exc # "none" THEN r.reason ELSE failureReason
    /\ UNCHANGED << config, abortRequested, runner, workflow, sessionVars,
                    twin, ws, waitVars, submits, ticket, loopConnects,
                    closes, reconnectFailed, histVars >>

\* The same statement in the second run.
SharedRecvTwin ==
    /\ twin.pc = "recv"
    /\ stream # << >>
    /\ stream' = Tail(stream)
    /\ LET r == frame_result(variant, production_mode, SwapJob(Head(stream)))
       IN  twin' = [ pc |-> r.pc,
                     outcome |-> IF r.exc # "none" THEN r.exc
                                 ELSE twin.outcome,
                     handler |-> r.handler ]
    /\ UNCHANGED << config, abortRequested, runner, workflow, sessionVars,
                    pc, ws, waitVars, submits, ticket, loopVars, histVars,
                    outcome >>

SharedNext ==
    \/ SharedRecv
    \/ SharedRecvTwin

SpecShared == SharedInit /\ [][SharedNext]_vars

\* ------------------------------------------ WorkflowRunner, the pipeline
\* execute_workflow_task builds a WorkflowRunner, binds the callbacks given
\* and calls run(); run performs its steps one after the other.  What the
\* client call hands back to run is drawn from what execute_workflow's
\* return statement can yield; the client's own progress is followed by the
\* other specifications.

\* The mappings "return output_images" yields: output_images starts empty
\* and only _process_history_outputs writes it.
ExecuteResults ==
    { process_history_outputs(o, failed, EmptyOutputs) :
        o \in HistoryOutputs, failed \in SUBSET { << "9", "a" >>, << "8", "b" >> } }

\* Exceptions leaving execute_workflow / queue_prompt.
ExecuteRaises == { "WorkflowConnectionError", "RuntimeError", "ValueError" }

\* Exceptions leaving get_workflow: a missing file, a rejected config.
GetWorkflowRaises == { "FileNotFoundError", "ValidationError" }

\* "if output_images": None and the empty dict are both false.
Truthy(output) == output.set /\ DOMAIN output.images # {}

\* The guard of the postprocess call with the mapping's emptiness left out.
PostprocessWantedIfSet(output) == output.set

\* if self.postprocess_callback: if output_images: ...
PostprocessWanted(output) == Truthy(output)

\* return output_images if output_images else prompt_id
run_result(output, prompt_id) ==
    IF Truthy(output)
    THEN [ kind |-> "images", images |-> output.images, id |-> "" ]
    ELSE IF prompt_id = ""
    THEN NoneValue
    ELSE [ kind |-> "prompt_id", images |-> EmptyOutputs, id |-> prompt_id ]

\* The task's handlers with the second one propagating.
task_except_known_only(r, e) ==
    IF e \in { "ConfigValidationError", "WorkflowConnectionError" }
    THEN [ r EXCEPT !.pc = "task_returned", !.failed = TRUE,
                    !.result = NoneValue ]
    ELSE [ r EXCEPT !.pc = "task_raised", !.failed = TRUE, !.raised = e ]

\* An exception e leaves a step of run: run's "except Exception: log; raise"
\* hands it to execute_workflow_task, whose two handlers,
\* (ConfigValidationError, WorkflowConnectionError) and Exception, both log
\* and return None.
task_except(r, e) ==
    [ r EXCEPT !.pc = "task_returned", !.failed = TRUE, !.result = NoneValue ]

Took(r, step) == [ r EXCEPT !.steps = Append(@, step) ]

TaskInit ==
    /\ variant = "typed"
    /\ production_mode \in BOOLEAN
    /\ wait_for_queue = TRUE
    /\ max_wait = 0
    /\ pc = "new"
    /\ ws = "none"
    /\ elapsed = 0
    /\ lastPoll = NoPoll
    /\ sawIdle = FALSE
    /\ waitExpired = FALSE
    /\ submits = 0
    /\ ticket = "none"
    /\ recvs = 0
    /\ lastRecv = "none"
    /\ lastFrame = NoFrame
    /\ lastHandler = "none"
    /\ loopConnects = 0
    /\ closes = 0
    /\ reconnectFailed = FALSE
    /\ terminal = FALSE
    /\ failureReason = ""
    /\ historyFetches = 0
    /\ history = NoHistory
    /\ output_images = EmptyOutputs
    /\ imageCalls = << >>
    /\ outcome = "none"
    /\ scoped = FALSE
    /\ session = "open"
    /\ closeCalls = 0
    /\ closeFailed = FALSE
    /\ twin = NoTwin
    /\ abortRequested = FALSE
    /\ stream = << >>
    /\ \E client \in { "websocket", "simple" }, pre, modify, post \in BOOLEAN :
          runner = NewRunner("pre", client, pre, modify, post)
    /\ workflow = NoWorkflow

\* 1. if self.preprocess_callback: self.preprocess_callback()
Preprocess ==
    /\ runner.pc = "pre"
    /\ IF runner.pre
       THEN \E ok \in BOOLEAN :
               runner' = IF ok
                         THEN [ Took(runner, "preprocess") EXCEPT !.pc = "build" ]
                         ELSE task_except(Took(runner, "preprocess"), "Exception")
       ELSE runner' = [ runner EXCEPT !.pc = "build" ]
    /\ UNCHANGED << config, abortRequested, stream, workflow, sessionVars,
                    twin, runVars >>

\* 2. workflow_data = self.workflow_manager.get_workflow(...)
BuildWorkflow ==
    /\ runner.pc = "build"
    /\ \/ runner' = [ Took(runner, "get_workflow") EXCEPT !.pc = "modify" ]
       \/ \E e \in GetWorkflowRaises :
             runner' = task_except(Took(runner, "get_workflow"), e)
    /\ UNCHANGED << config, abortRequested, stream, workflow, sessionVars,
                    twin, runVars >>

\* 3. if self.workflow_modify_callback: workflow_data = callback(workflow_data)
ModifyWorkflow ==
    /\ runner.pc = "modify"
    /\ IF runner.modify
       THEN \E ok \in BOOLEAN :
               runner' = IF ok
                         THEN [ Took(runner, "modify") EXCEPT !.pc = "exec" ]
                         ELSE task_except(Took(runner, "modify"), "Exception")
       ELSE runner' = [ runner EXCEPT !.pc = "exec" ]
    /\ UNCHANGED << config, abortRequested, stream, workflow, sessionVars,
                    twin, runVars >>

\* 4. output_images = self.client.execute_workflow(workflow_data) for a
\* ComfyUIWebSocketClient, prompt_id = self.client.queue_prompt(...) for a
\* ComfyUISimpleClient.
ClientExecute ==
    /\ runner.pc = "exec"
    /\ \/ /\ runner.client = "websocket"
          /\ \E m \in ExecuteResults :
                runner' = [ Took(runner, "execute") EXCEPT
                              !.pc = "post", !.executed = "returned",
                              !.output = [ set |-> TRUE, images |-> m ] ]
       \/ /\ runner.client = "simple"
          /\ runner' = [ Took(runner, "execute") EXCEPT
                           !.pc = "post", !.executed = "returned",
                           !.prompt_id = "p1" ]
       \/ \E e \in ExecuteRaises :
             runner' = task_except([ Took(runner, "execute") EXCEPT
                                       !.executed = "raised" ], e)
    /\ UNCHANGED << config, abortRequested, stream, workflow, sessionVars,
                    twin, runVars >>

\* 5. the postprocess callback, then run's return statement and the task's
\* "return results".
Postprocess ==
    /\ runner.pc = "post"
    /\ LET value == run_result(runner.output, runner.prompt_id)
           back(r) == [ r EXCEPT !.pc = "task_returned", !.runResult = value,
                                 !.result = value ]
       IN  IF runner.post /\ PostprocessWanted(runner.output)
           THEN \E ok \in BOOLEAN :
                   runner' = IF ok
                             THEN back(Took(runner, "postprocess"))
                             ELSE task_except(Took(runner, "postprocess"),
                                              "Exception")
           ELSE runner' = back(runner)
    /\ UNCHANGED << config, abortRequested, stream, workflow, sessionVars,
                    twin, runVars >>

TaskNext ==
    \/ Preprocess
    \/ BuildWorkflow
    \/ ModifyWorkflow
    \/ ClientExecute
    \/ Postprocess

SpecTask == TaskInit /\ [][TaskNext]_vars

\* --------------------------------------- WorkflowManager.get_workflow
\* A JSON value of a workflow input or of a config entry: an int, a float
\* or a string.  A float is held as its count of 1e-7 units, one decimal
\* more than round(..., 6) keeps.
IntVal(k) == [ kind |-> "int", v |-> k ]
FloatVal(u) == [ kind |-> "float", v |-> u ]
StrVal == [ kind |-> "str", v |-> 0 ]

\* One node of the template: {"class_type": ..., "inputs": {...}} under its
\* id; inputs maps parameter names to values.
WorkflowNode(id, class_type, inputs) ==
    [ id |-> id, class_type |-> class_type, inputs |-> inputs ]

NoInputs == [ q \in {} |-> StrVal ]
OneInput(name, val) == [ q \in { name } |-> val ]

\* The templates drawn: up to MaxNodes nodes, in the file's order.
NodeShapes ==
    { << "KSampler", OneInput("seed", IntVal(0)) >>,
      << "KSampler", OneInput("seed", StrVal) >>,
      << "TestNode", OneInput("param1", IntVal(0)) >>,
      << "TestNode", NoInputs >>,
      << "PreviewImage", NoInputs >> }

Templates ==
    UNION { { [ i \in 1..n |-> WorkflowNode(i, sh[i][1], sh[i][2]) ] :
                sh \in [ 1..n -> NodeShapes ] } : n \in 1..MaxNodes }

\* The value field of a config entry: a direct value or a typed request.
DirectValue(val) ==
    [ type |-> "direct", value |-> val, min |-> val, max |-> val,
      choices |-> << >> ]
RandomRange(lo, hi) ==
    [ type |-> "random_range", value |-> lo, min |-> lo, max |-> hi,
      choices |-> << >> ]
RandomChoice(cs) ==
    [ type |-> "random_choice", value |-> cs[1], min |-> cs[1],
      max |-> cs[1], choices |-> cs ]

ConfigValues ==
    { DirectValue(IntVal(100)),
      RandomRange(IntVal(1), IntVal(3)),
      RandomRange(IntVal(3), IntVal(1)),
      RandomRange(FloatVal(1), FloatVal(4)),
      RandomRange(FloatVal(10), FloatVal(14)),
      RandomChoice(<< IntVal(7), StrVal >>) }

\* WorkflowNodeConfig: class_type, item_name, value, node_index >= 1.
ConfigEntries ==
    [ class_type : { "KSampler", "TestNode" },
      parameter_name : { "seed", "param1" },
      value : ConfigValues,
      node_index : 1..MaxNodes ]

\* RootConfig.nodes as drawn: none, or one entry, or two entries whose
\* second one sets a direct value.
ConfigNodes ==
    { << >> } \cup { << e >> : e \in ConfigEntries }
        \cup { << e, f >> : e \in { c \in ConfigEntries : c.node_index = 1 },
                            f \in { c \in ConfigEntries :
                                      /\ c.value.type = "direct"
                                      /\ c.class_type = "TestNode"
                                      /\ c.parameter_name = "param1" } }

\* constant.SEED_NODE_LIST: the module is not part of the sources at hand.
\* The code reads each element's "class_type" and its optional
\* "parameter_name" (default "seed") and tolerates an empty list.
SeedNodeLists ==
    { << >>, << [ class_type |-> "KSampler", parameter_name |-> "seed" ] >> }

\* remove_preview_nodes: every node of class_type "PreviewImage" is popped.
remove_preview_nodes(data) ==
    SelectSeq(data, LAMBDA n : n.class_type # "PreviewImage")

\* _randomize_seed_nodes, one node: the first seed entry of the node's
\* class names the parameter; it is redrawn when it is among the inputs and
\* holds a number.
Seedable(seeds, n) ==
    \E i \in 1..Len(seeds) :
        /\ seeds[i].class_type = n.class_type
        /\ \A j \in 1..(i - 1) : seeds[j].class_type # n.class_type
        /\ seeds[i].parameter_name \in DOMAIN n.inputs
        /\ n.inputs[seeds[i].parameter_name].kind \in { "int", "float" }

SeedParam(seeds, n) ==
    LET i == CHOOSE k \in 1..Len(seeds) :
                 /\ seeds[k].class_type = n.class_type
                 /\ \A j \in 1..(k - 1) : seeds[j].class_type # n.class_type
    IN  seeds[i].parameter_name

\* _randomize_seed_nodes: draw[i] is random.randint(0, self.MAX_SEED) for
\* the i-th node.
randomize_seed_nodes(data, seeds, draw) ==
    [ i \in 1..Len(data) |->
        IF Seedable(seeds, data[i])
        THEN [ data[i] EXCEPT !.inputs[SeedParam(seeds, data[i])] = IntVal(draw[i]) ]
        ELSE data[i] ]

\* round(x, 6) of a float of u units: the nearest multiple of 1e-6, either
\* neighbour when u lies halfway.
Round6(u) ==
    LET down == (u \div 10) * 10
    IN  IF u % 10 < 5 THEN { down }
        ELSE IF u % 10 > 5 THEN { down + 10 }
        ELSE { down, down + 10 }

Between(a, b) == IF a <= b THEN a..b ELSE b..a

\* _handle_random_range: round(random.uniform(min, max), 6) when min or max
\* is a float, random.randint(min, max) otherwise; randint raises ValueError
\* on an empty range (no value: the empty set), uniform accepts min > max.
handle_random_range(cfg) ==
    IF cfg.min.kind = "float" \/ cfg.max.kind = "float"
    THEN { FloatVal(r) : r \in UNION { Round6(u) : u \in Between(cfg.min.v, cfg.max.v) } }
    ELSE { IntVal(k) : k \in cfg.min.v .. cfg.max.v }

\* _handle_random_choice: random.choice(choices).
handle_random_choice(cfg) == { cfg.choices[i] : i \in 1..Len(cfg.choices) }

\* _resolve_value: the values final_value can take.
resolve_value(raw) ==
    IF raw.type = "direct" THEN { raw.value }
    ELSE IF raw.type = "random_range" THEN handle_random_range(raw)
    ELSE handle_random_choice(raw)

\* modify_json_item: the index-th node of class_type gets new_value at
\* parameter_name when it has that input; otherwise nothing changes.
Selected(data, class_type, index) ==
    { i \in 1..Len(data) :
        /\ data[i].class_type = class_type
        /\ Cardinality({ j \in 1..i : data[j].class_type = class_type }) = index }

modify_json_item(data, class_type, parameter_name, new_value, index) ==
    [ i \in 1..Len(data) |->
        IF i \in Selected(data, class_type, index)
              /\ parameter_name \in DOMAIN data[i].inputs
        THEN [ data[i] EXCEPT !.inputs[parameter_name] = new_value ]
        ELSE data[i] ]

\* for node_cfg in config.nodes: ... with picks[k] the value resolved for the
\* k-th entry.
RECURSIVE apply_nodes(_, _, _, _)
apply_nodes(data, nodes, picks, k) ==
    IF k > Len(nodes) THEN data
    ELSE apply_nodes(
             modify_json_item(data, nodes[k].class_type,
                              nodes[k].parameter_name, picks[k],
                              nodes[k].node_index),
             nodes, picks, k + 1)

\* if not random_init or not config.nodes: return workflow_data
SkipsManual(random_init, nodes) == ~random_init \/ nodes = << >>

NewWorkflow(random_init, remove_previews, seeds, template, nodes) ==
    [ pc |-> "call", random_init |-> random_init,
      remove_previews |-> remove_previews, seeds |-> seeds,
      template |-> template, nodes |-> nodes, result |-> << >>,
      picks |-> << >> ]

WorkflowInit ==
    /\ variant = "typed"
    /\ production_mode = TRUE
    /\ wait_for_queue = TRUE
    /\ max_wait = 0
    /\ pc = "new"
    /\ ws = "none"
    /\ elapsed = 0
    /\ lastPoll = NoPoll
    /\ sawIdle = FALSE
    /\ waitExpired = FALSE
    /\ submits = 0
    /\ ticket = "none"
    /\ recvs = 0
    /\ lastRecv = "none"
    /\ lastFrame = NoFrame
    /\ lastHandler = "none"
    /\ loopConnects = 0
    /\ closes = 0
    /\ reconnectFailed = FALSE
    /\ terminal = FALSE
    /\ failureReason = ""
    /\ historyFetches = 0
    /\ history = NoHistory
    /\ output_images = EmptyOutputs
    /\ imageCalls = << >>
    /\ outcome = "none"
    /\ scoped = FALSE
    /\ session = "open"
    /\ closeCalls = 0
    /\ closeFailed = FALSE
    /\ twin = NoTwin
    /\ abortRequested = FALSE
    /\ stream = << >>
    /\ runner = NoRunner
    /\ \E random_init, remove_previews \in BOOLEAN, seeds \in SeedNodeLists,
          template \in Templates, nodes \in ConfigNodes :
          workflow = NewWorkflow(random_init, remove_previews, seeds,
                                 template, nodes)

\* get_workflow(config_file_path, random_init, remove_previews) on a config
\* that validates: previews removed, seeds redrawn, then the manual entries
\* applied unless the early return is taken.  A ValueError of randint leaves
\* get_workflow through the entry that raised it.
GetWorkflow ==
    /\ workflow.pc = "call"
    /\ \E draw \in [ 1..MaxNodes -> 0..MaxSeed ] :
          LET loaded == IF workflow.remove_previews
                        THEN remove_preview_nodes(workflow.template)
                        ELSE workflow.template
              seeded == randomize_seed_nodes(loaded, workflow.seeds, draw)
              nodes == workflow.nodes
          IN  IF SkipsManual(workflow.random_init, nodes)
              THEN workflow' = [ workflow EXCEPT !.pc = "returned",
                                                 !.result = seeded ]
              ELSE IF \E k \in 1..Len(nodes) : resolve_value(nodes[k].value) = {}
              THEN workflow' = [ workflow EXCEPT !.pc = "raised" ]
              ELSE \E picks \in [ 1..Len(nodes) ->
                                    UNION { resolve_value(nodes[k].value) :
                                              k \in 1..Len(nodes) } ] :
                      /\ \A k \in 1..Len(nodes) :
                            picks[k] \in resolve_value(nodes[k].value)
                      /\ workflow' =
                            [ workflow EXCEPT
                                !.pc = "returned",
                                !.picks = picks,
                                !.result = apply_nodes(seeded, nodes, picks, 1) ]
    /\ UNCHANGED << config, abortRequested, stream, runner, sessionVars,
                    twin, runVars >>

WorkflowNext == GetWorkflow

SpecWorkflow == WorkflowInit /\ [][WorkflowNext]_vars

\* ---------------------------------------------------------------- claims
\* The step in which ws.recv returned a frame to the receive loop.
FrameStep == pc = "recv" /\ recvs' = recvs + 1 /\ lastRecv' = "frame"

\* The last frame received is executing(node=null) of the tracked job.
LastIsFinalExecuting ==
    /\ lastRecv = "frame"
    /\ lastFrame.form = "json"
    /\ lastFrame.type = "executing"
    /\ lastFrame.pid = PromptId
    /\ lastFrame.node = Null

\* C1: an executing event of the tracked job with node null ends the
\* receive loop on that frame (terminal becomes true, the next step is the
\* history fetch); one with a non-null node leaves terminal unchanged and
\* the loop receives again.
C1_ExecutingNullEndsLoop ==
    [][ ( /\ FrameStep
          /\ lastFrame'.form = "json"
          /\ lastFrame'.type = "executing"
          /\ lastFrame'.pid = PromptId )
        => IF lastFrame'.node = Null
           THEN terminal' /\ pc' = "history"
           ELSE terminal' = terminal /\ pc' = "recv" ]_vars

\* C1 witness: the loop was left on executing(node=null) after an earlier
\* receive that did not end it.
C1_Witness ==
    /\ LastIsFinalExecuting
    /\ recvs >= 2
    /\ terminal
    /\ pc = "history"

\* C2: a structured event whose prompt_id is another job's is ignored: the
\* loop goes on receiving, the run does not fail and terminal, failure
\* reason and outputs are unchanged.
C2_ForeignEventIgnored ==
    [][ ( /\ FrameStep
          /\ lastFrame'.form = "json"
          /\ lastFrame'.pid = OtherPromptId )
        => ( /\ pc' = "recv"
             /\ terminal' = terminal
             /\ failureReason' = failureReason
             /\ outcome' = outcome
             /\ output_images' = output_images ) ]_vars

\* C3: an execution_error event of the tracked job makes the run terminal
\* with a non-empty failure reason and execute_workflow raises, under
\* either policy.
C3_ExecutionErrorFails ==
    [][ ( /\ FrameStep
          /\ lastFrame'.form = "json"
          /\ lastFrame'.type = "execution_error"
          /\ lastFrame'.pid = PromptId )
        => ( /\ terminal'
             /\ failureReason' # ""
             /\ pc' = "raised" ) ]_vars

\* C4: an execution_interrupted event of the tracked job makes the run
\* terminal with failure reason "interrupted" and execute_workflow raises
\* instead of receiving again.
C4_InterruptedFails ==
    [][ ( /\ FrameStep
          /\ lastFrame'.form = "json"
          /\ lastFrame'.type = "execution_interrupted"
          /\ lastFrame'.pid = PromptId )
        => ( /\ terminal'
             /\ failureReason' = "interrupted"
             /\ pc' = "raised" ) ]_vars

\* C5: in the client of comfyui_websocket.py, a ticket with node_errors or
\* a top-level error makes execute_workflow raise the validation failure
\* with no receive, no connect and no history fetch after the submit.
C5_RejectedTicketNoStream ==
    ( variant = "typed" /\ ticket \in { "node_errors", "error" } )
    => ( /\ pc = "raised"
         /\ outcome = "RuntimeError:validation"
         /\ submits = 1
         /\ recvs = 0
         /\ loopConnects = 0
         /\ historyFetches = 0 )

\* C5 witness: a with-block client (stream connected by __enter__) whose
\* submission came back with node errors.
C5_Witness ==
    /\ variant = "typed"
    /\ ticket = "node_errors"
    /\ ws = "connected"
    /\ pc = "raised"
    /\ outcome = "RuntimeError:validation"

\* C6: with max_wait set and every snapshot at or above min_queue_num, the
\* admission wait raises the queue-wait timeout once max_wait has elapsed,
\* and nothing is submitted.
C6_WaitTimeoutRaised ==
    ( wait_for_queue /\ max_wait # 0 /\ waitExpired /\ ~sawIdle )
    => ( pc = "raised" /\ outcome = "TimeoutError" /\ submits = 0 )

\* C7: with admission waiting enabled, a submission is made only after
\* some poll returned a snapshot with running+pending below min_queue_num.
C7_SubmitOnlyAfterIdle ==
    ( wait_for_queue /\ submits > 0 ) => sawIdle

\* C7 witness: a job submitted after the wait slept at least once.
C7_Witness ==
    /\ wait_for_queue
    /\ submits > 0
    /\ elapsed > 0
    /\ sawIdle

\* C8: a successful poll whose snapshot is below min_queue_num makes
\* wait_for_queue_empty return on that poll, and the run goes on to submit.
C8_IdlePollReturns ==
    [][ ( /\ pc = "wait"
          /\ lastPoll'.ok
          /\ lastPoll'.total < min_queue_num )
        => pc' = "submit" ]_vars

\* C9: one closed stream, a successful reconnect and then
\* executing(node=null) of the tracked job, with the job present in the
\* history response: exactly one connect() by the loop, one submission,
\* and execute_workflow returns its outputs.
C9_ReconnectThenComplete ==
    ( /\ closes = 1
      /\ ~reconnectFailed
      /\ LastIsFinalExecuting
      /\ historyFetches = 1
      /\ history.present )
    => ( /\ loopConnects = 1
         /\ submits = 1
         /\ pc = "returned"
         /\ outcome = "returned" )

\* C10: a reconnect that fails ends the run with the connection error:
\* the failed receive is the last one and no history is fetched.
C10_ReconnectFailurePropagates ==
    reconnectFailed
    => ( /\ pc = "raised"
         /\ outcome \in { "WorkflowConnectionError", "WebSocketException" }
         /\ lastRecv = "closed"
         /\ historyFetches = 0 )

\* C10 witness: the loop's connect() raised after the stream closed.
C10_Witness ==
    /\ reconnectFailed
    /\ closes >= 1
    /\ pc = "raised"

\* The step in which ws.recv timed out.
TimeoutStep == pc = "recv" /\ recvs' = recvs + 1 /\ lastRecv' = "timeout"

\* C11: a receive timeout is not an error: the loop receives again with
\* the outputs, the terminal flag, the connection and the outcome
\* unchanged, and no history has been or is fetched on it.
C11_TimeoutLoopsAgain ==
    [][ TimeoutStep
        => ( /\ pc' = "recv"
             /\ ws' = ws
             /\ terminal' = terminal
             /\ output_images' = output_images
             /\ imageCalls' = imageCalls
             /\ outcome' = outcome
             /\ failureReason' = failureReason
             /\ historyFetches' = 0 ) ]_vars

\* C11 witness: every receive so far timed out, twice at least, and the
\* loop is still receiving.
C11_Witness ==
    /\ lastRecv = "timeout"
    /\ recvs >= 2
    /\ lastFrame = NoFrame
    /\ closes = 0
    /\ pc = "recv"
    /\ outcome = "none"

\* C12 as stated: after an execution_error or execution_interrupted event
\* the history is fetched before the failure reaches the caller.
C12_HistoryFetchedAfterFailure ==
    ( pc = "raised" /\ failureReason \in { "execution_error", "interrupted" } )
    => historyFetches >= 1

\* C12 amended: a failure raised by a message handler leaves
\* execute_workflow on that frame with no history fetched; the history is
\* fetched only after the loop was left by break, on executing(node=null)
\* of the tracked job or on a receive error.
C12_HandlerFailureSkipsHistory ==
    /\ ( failureReason \in { "execution_error", "interrupted" }
         => ( /\ pc = "raised"
              /\ outcome \in { "RuntimeError:execution_error",
                                "RuntimeError:interrupted" }
              /\ historyFetches = 0 ) )
    /\ ( historyFetches >= 1 => ( LastIsFinalExecuting \/ lastRecv = "error" ) )

\* C12 witness: an execution_error event ended the run after an earlier
\* receive.
C12_Witness ==
    /\ failureReason = "execution_error"
    /\ lastFrame.type = "execution_error"
    /\ recvs >= 2
    /\ pc = "raised"

\* C13: a history response without the tracked prompt_id ends the run with
\* the ValueError of the membership test: nothing is returned, no image is
\* requested and the history is not fetched again.
C13_MissingHistoryIsFatal ==
    history.status = "absent"
    => ( /\ pc = "raised"
         /\ outcome = "ValueError"
         /\ output_images = EmptyOutputs
         /\ imageCalls = << >>
         /\ historyFetches = 1 )

\* C13 witness: the loop ended on executing(node=null) and the history
\* response had no record of the job.
C13_Witness ==
    /\ history.status = "absent"
    /\ LastIsFinalExecuting
    /\ pc = "raised"

\* The mapping of a history record whose images were all fetched: one key
\* per node with images, the bytes in the order listed.
ExpectedImages(outputs) ==
    [ n \in { m \in DOMAIN outputs : outputs[m].has /\ outputs[m].images # << >> }
        |-> outputs[n].images ]

\* C14: a run whose loop ended on executing(node=null) and whose history
\* response contains the job returns, when every image fetch succeeds,
\* exactly the images of the history record, node by node, in order.
C14_CompletedRunReturnsImages ==
    ( /\ LastIsFinalExecuting
      /\ history.status = "present"
      /\ \A i \in 1..Len(imageCalls) : imageCalls[i].ok )
    => ( /\ pc = "returned"
         /\ outcome = "returned"
         /\ output_images = ExpectedImages(history.outputs) )

\* The images of node n that were fetched, in the order of the calls.
FetchedOf(n) ==
    LET mine == SelectSeq(imageCalls, LAMBDA c : c.node = n /\ c.ok)
    IN  [ k \in 1..Len(mine) |-> mine[k].ref ]

\* The images requested, in the order of the calls.
RequestedOf(n) ==
    LET mine == SelectSeq(imageCalls, LAMBDA c : c.node = n)
    IN  [ k \in 1..Len(mine) |-> mine[k].ref ]

\* C15: when an image fetch failed during reconciliation the run still
\* returns; every image of every node of the record was requested, and the
\* mapping holds exactly the images whose fetch succeeded.
C15_FailedFetchAbsorbed ==
    ( /\ history.status = "present"
      /\ \E i \in 1..Len(imageCalls) : ~imageCalls[i].ok )
    => ( /\ pc = "returned"
         /\ outcome = "returned"
         /\ \A n \in OutNodes :
               /\ RequestedOf(n) =
                     ( IF history.outputs[n].has THEN history.outputs[n].images
                       ELSE << >> )
               /\ IF FetchedOf(n) = << >>
                  THEN n \notin DOMAIN output_images
                  ELSE n \in DOMAIN output_images
                       /\ output_images[n] = FetchedOf(n) )

\* C15 witness: the first image of node "9" failed, its second image and
\* the image of node "8" were fetched and returned.
C15_Witness ==
    /\ pc = "returned"
    /\ Len(imageCalls) = 3
    /\ imageCalls[1].node = "8" /\ imageCalls[1].ok
    /\ imageCalls[2].node = "9" /\ ~imageCalls[2].ok
    /\ imageCalls[3].node = "9" /\ imageCalls[3].ok
    /\ DOMAIN output_images = { "8", "9" }
    /\ output_images["9"] = << "b" >>

C17_HistoryOnceAfterLoop ==
    /\ historyFetches <= 1
    /\ ( pc \in { "new", "ready", "enter_failed", "wait", "submit", "recv",
                  "history" }
         => historyFetches = 0 )
    /\ ( historyFetches = 1
         => ( LastIsFinalExecuting \/ lastRecv = "error" ) )

\* C17 witness: one fetch, after a loop that saw a timeout or a frame and
\* a reconnect before it was left.
C17_Witness ==
    /\ historyFetches = 1
    /\ closes >= 1
    /\ recvs >= 3
    /\ pc \in { "returned", "raised" }

\* C18: every call of execute_workflow that has begun ends: it returns or
\* it raises.
C18_EveryRunEnds ==
    ( pc \in { "wait", "submit", "recv", "history" } )
    ~> ( pc \in { "returned", "raised" } )

\* C19 as stated: a failed queue poll during the admission wait reaches
\* the caller as a transport failure.
C19_FailedPollPropagates ==
    [][ ( pc = "wait" /\ ~lastPoll'.ok )
        => ( pc' = "raised" /\ outcome' = "ConnectionError" ) ]_vars

\* C19 amended: a failed queue poll during the admission wait is logged
\* and the queue is polled again after check_interval; nothing reaches the
\* caller.
C19_FailedPollRetried ==
    [][ ( pc = "wait" /\ ~lastPoll'.ok )
        => ( /\ pc' = "wait"
             /\ elapsed' = elapsed + check_interval
             /\ outcome' = outcome
             /\ submits' = submits ) ]_vars

\* C19 witness: the second poll or a later one failed and the wait goes
\* on.
C19_Witness ==
    /\ pc = "wait"
    /\ elapsed >= 2
    /\ ~lastPoll.ok
    /\ outcome = "none"

\* C20: an execution_success event of the tracked job does not end the
\* loop: the next step is another receive, and the terminal flag, the
\* outcome and the outputs are as before it.
C20_SuccessDoesNotEndLoop ==
    [][ ( /\ FrameStep
          /\ lastFrame'.form = "json"
          /\ lastFrame'.type = "execution_success"
          /\ lastFrame'.pid = PromptId )
        => ( /\ pc' = "recv"
             /\ terminal' = terminal
             /\ outcome' = outcome
             /\ failureReason' = failureReason
             /\ output_images' = output_images
             /\ historyFetches' = historyFetches ) ]_vars

\* C20 witness: execution_success of the tracked job was received and the
\* loop is still receiving.
C20_Witness ==
    /\ pc = "recv"
    /\ lastRecv = "frame"
    /\ lastFrame.type = "execution_success"
    /\ lastFrame.pid = PromptId
    /\ ~terminal

\* The frame leaves the run where it was: the loop receives again and the
\* terminal flag, the outcome and the outputs are as before.
FrameLeavesRunAlone ==
    /\ pc' = "recv"
    /\ terminal' = terminal
    /\ outcome' = outcome
    /\ failureReason' = failureReason
    /\ output_images' = output_images
    /\ historyFetches' = historyFetches

\* C21: in comfyui_webscoket.py the production policy is exactly
\* {execution_error, execution_interrupted, execution_success, executing},
\* the development policy is all ten kinds, and under either policy an
\* executing, execution_error or execution_interrupted event of the tracked
\* job passes the policy and runs its handler.
C21_TerminalKindsAlwaysObserved ==
    [][ ( /\ FrameStep
          /\ variant = "legacy"
          /\ lastFrame'.form = "json"
          /\ lastFrame'.pid = PromptId
          /\ lastFrame'.type \in
                { "executing", "execution_error", "execution_interrupted" } )
        => ( /\ message_policy(TRUE) =
                  { "execution_error", "execution_interrupted",
                    "execution_success", "executing" }
             /\ message_policy(FALSE) = JsonMessageType
             /\ Cardinality(JsonMessageType) = 10
             /\ lastFrame'.type \in message_policy(production_mode)
             /\ lastHandler' =
                  ( CASE lastFrame'.type = "executing" -> "_handle_executing"
                      [] lastFrame'.type = "execution_error" ->
                            "_handle_execution_error"
                      [] lastFrame'.type = "execution_interrupted" ->
                            "_handle_execution_interrupted" ) ) ]_vars

\* C21 witness: under the production policy an execution_interrupted
\* event ran its handler and failed the run.
C21_Witness ==
    /\ variant = "legacy"
    /\ production_mode
    /\ lastFrame.type = "execution_interrupted"
    /\ lastHandler = "_handle_execution_interrupted"
    /\ pc = "raised"

\* C22: on the same stream the client under the production policy and the
\* client under the development policy leave the receive loop on the same
\* frame and in the same way.
C22_PoliciesAgree ==
    /\ pc = twin.pc
    /\ outcome = twin.outcome

\* C23: a progress or progress_state event leaves the run alone; under the
\* production policy no handler runs on it.
C23_ProgressNeverAffectsRun ==
    [][ ( /\ FrameStep
          /\ lastFrame'.form = "json"
          /\ lastFrame'.type \in { "progress", "progress_state" } )
        => ( /\ FrameLeavesRunAlone
             /\ ( production_mode => lastHandler' = "none" ) ) ]_vars

\* C24: a binary frame leaves the run alone; in production mode no handler
\* runs on it.
C24_BinaryFramesObservational ==
    [][ ( FrameStep /\ lastFrame'.form \in { "binary", "short" } )
        => ( /\ FrameLeavesRunAlone
             /\ ( production_mode => lastHandler' = "none" ) ) ]_vars

\* A binary frame shorter than 4 bytes, with an unknown tag, or with a
\* payload shorter than its length prefix declares.
MalformedBinary(f) ==
    \/ f.form = "short"
    \/ f.form = "binary" /\ f.tag \notin { 1, 2, 3 }
    \/ f.form = "binary" /\ f.payload = "truncated"

\* C25: a malformed binary frame raises nothing and leaves the run alone.
C25_MalformedBinaryDropped ==
    [][ ( FrameStep /\ MalformedBinary(lastFrame') )
        => FrameLeavesRunAlone ]_vars

\* C25 witness: in development mode a metadata preview shorter than its
\* prefix was handled and the loop receives again.
C25_Witness ==
    /\ ~production_mode
    /\ lastRecv = "frame"
    /\ lastFrame.form = "binary"
    /\ lastFrame.tag = 2
    /\ lastFrame.payload = "truncated"
    /\ lastHandler = "_handle_metadata_preview_image"
    /\ pc = "recv"
    /\ outcome = "none"

\* C26: a text frame that is no {type, data} envelope raises nothing and
\* leaves the run alone.
C26_MalformedTextDropped ==
    [][ ( FrameStep /\ lastFrame'.form \in { "badtext", "nonobject" } )
        => FrameLeavesRunAlone ]_vars

\* C27: an event of a kind outside the ten runs no handler and leaves the
\* run alone, under either policy.
C27_UnknownKindIgnored ==
    [][ ( /\ FrameStep
          /\ lastFrame'.form = "json"
          /\ lastFrame'.type \notin JsonMessageType )
        => ( FrameLeavesRunAlone /\ lastHandler' = "none" ) ]_vars

\* C27 witness: an event of unknown kind naming the tracked job was
\* received and the loop receives again.
C27_Witness ==
    /\ lastRecv = "frame"
    /\ lastFrame.type = "unknown_kind"
    /\ lastFrame.pid = PromptId
    /\ lastHandler = "none"
    /\ pc = "recv"
    /\ ~terminal

\* C28: close() raises in no state and at no call, and after every call
\* self.ws is None and the HTTP session is closed, also when
\* self.ws.close() raised.
C28_CloseIdempotentTotal ==
    /\ pc # "close_raised"
    /\ ( closeCalls >= 1 => ( ws = "none" /\ session = "closed" ) )

\* C28 witness: close() was called twice on a client whose stream failed
\* to close the first time.
C28_Witness ==
    /\ closeCalls = 2
    /\ closeFailed
    /\ ws = "none"
    /\ session = "closed"
    /\ pc = "object"

\* C29: a with-block that was entered is left with the stream released
\* and the HTTP session closed, however execute_workflow ended; __exit__
\* itself raises nothing.
C29_ScopedExitReleases ==
    /\ pc # "exit_raised"
    /\ ( pc = "exited"
         => ( scoped /\ closeCalls = 1 /\ ws = "none" /\ session = "closed" ) )
    /\ ( ( scoped /\ pc \in { "returned", "raised" } )
         => ( closeCalls = 0 /\ session = "open" ) )

\* C29 witness: the block was left by the failure of an execution_error
\* event raised mid-loop, and the stream failed to close.
C29_Witness ==
    /\ pc = "exited"
    /\ failureReason = "execution_error"
    /\ closeFailed
    /\ session = "closed"

\* C30: the receive loop runs on a connected stream only.
C30_StreamConnectedInLoop ==
    pc = "recv" => ws = "connected"

\* C31: the receive loop checks a cancellation signal once per iteration:
\* an iteration made after the caller asked for the abort leaves the loop
\* with the session closed.
C31_AbortEndsLoopAndCloses ==
    [][ (abortRequested /\ pc = "recv" /\ recvs' # recvs)
            => (pc' # "recv" /\ session' = "closed") ]_vars

\* C32: two runs share the stream and each filters by its own prompt_id:
\* once the server's events for both jobs have all been received, each run
\* has met its own executing(node=null) and left the receive loop.
C32_SharedRunsBothComplete ==
    (variant = "typed" /\ stream = << >>)
        => (pc = "history" /\ twin.pc = "history")

\* C33: execute_workflow_task never raises: when a step of the pipeline
\* fails it returns None, and otherwise it returns what run returns.
C33_TaskNeverRaises ==
    /\ runner.pc # "task_raised"
    /\ runner.pc = "task_returned" =>
          IF runner.failed
          THEN runner.result = NoneValue
          ELSE /\ runner.result = run_result(runner.output, runner.prompt_id)
               /\ runner.result = runner.runResult

\* C33's case: the client call raised and the task handed back None.
C33_Witness ==
    /\ runner.pc = "task_returned"
    /\ runner.executed = "raised"
    /\ runner.failed
    /\ runner.result = NoneValue

\* The place of a step in run.
StepRank(step) ==
    CASE step = "preprocess" -> 1
      [] step = "get_workflow" -> 2
      [] step = "modify" -> 3
      [] step = "execute" -> 4
      [] step = "postprocess" -> 5

\* C38: run takes its steps in the order preprocess, get_workflow, modify,
\* client execution, postprocess, each at most once and none before
\* get_workflow but preprocess; postprocess is called only after the client
\* call returned, and only with a non-empty output mapping.
C38_StepsInOrder ==
    LET s == runner.steps
    IN  /\ \A i, j \in 1..Len(s) : i < j => StepRank(s[i]) < StepRank(s[j])
        /\ \A i \in 1..Len(s) :
              StepRank(s[i]) > 2 => \E j \in 1..(i - 1) : s[j] = "get_workflow"
        /\ \A i \in 1..Len(s) :
              s[i] = "postprocess" =>
                 /\ \E j \in 1..(i - 1) : s[j] = "execute"
                 /\ runner.executed = "returned"
                 /\ runner.output.set
                 /\ DOMAIN runner.output.images # {}

\* C38's case: all five steps were taken and run returned the images.
C38_Witness ==
    /\ runner.pc = "task_returned"
    /\ runner.steps
          = << "preprocess", "get_workflow", "modify", "execute", "postprocess" >>
    /\ runner.result.kind = "images"

TemplateInput(id, q) ==
    LET i == CHOOSE k \in 1..Len(workflow.template) :
                 workflow.template[k].id = id
    IN  workflow.template[i].inputs[q]

\* C34: with random_init=False no configured modification is applied: for
\* every configured entry, the input it names in the returned workflow
\* holds the value the template holds there.
C34_NoRandomInitKeepsTemplate ==
    (workflow.pc = "returned" /\ ~workflow.random_init) =>
        \A k \in 1..Len(workflow.nodes) :
            LET e == workflow.nodes[k]
            IN  \A i \in Selected(workflow.result, e.class_type, e.node_index) :
                    e.parameter_name \in DOMAIN workflow.result[i].inputs =>
                        workflow.result[i].inputs[e.parameter_name]
                            = TemplateInput(workflow.result[i].id, e.parameter_name)

\* C35: with random_init=True an entry {type: random_range, min, max} that
\* no later entry overrides leaves at the input it names a value v with
\* min <= v <= max, whatever was drawn.
C35_RandomRangeWithinBounds ==
    (workflow.pc = "returned" /\ workflow.random_init) =>
        \A k \in 1..Len(workflow.nodes) :
            LET e == workflow.nodes[k]
            IN  ( /\ e.value.type = "random_range"
                  /\ \A j \in (k + 1)..Len(workflow.nodes) :
                        \/ workflow.nodes[j].class_type # e.class_type
                        \/ workflow.nodes[j].parameter_name # e.parameter_name
                        \/ workflow.nodes[j].node_index # e.node_index )
                => \A i \in Selected(workflow.result, e.class_type, e.node_index) :
                      e.parameter_name \in DOMAIN workflow.result[i].inputs =>
                          LET v == workflow.result[i].inputs[e.parameter_name]
                          IN  /\ v.kind = e.value.min.kind
                              /\ e.value.min.v <= v.v
                              /\ v.v <= e.value.max.v

\* C36: execute_workflow returns an output mapping only if the receive loop
\* was left on the executing(node=null) event of its own prompt_id.
C36_ReturnOnlyAfterTerminal ==
    outcome = "returned" => LastIsFinalExecuting

\* C37: a call submits its job at most once, and a call that got past the
\* admission wait and the submission step has made exactly one POST /prompt:
\* no timeout, reconnect or receive error adds another.
C37_SubmittedExactlyOnce ==
    /\ submits <= 1
    /\ pc \in { "recv", "history", "returned", "raised" } => submits = 1

\* C40: under the full (development) policy the handler run on a progress
\* event returns for every max the event carries: the receive that
\* delivered it raises nothing and the loop receives again.
C40_ProgressHandlerTotal ==
    [][ ( /\ FrameStep
          /\ ~production_mode
          /\ lastFrame'.form = "json"
          /\ lastFrame'.type = "progress" )
        => ( outcome' = outcome /\ pc' = "recv" ) ]_vars

====
